---- MODULE Spec2Model ----
(***************************************************************************)
(* A model of flamslam-js: the aligned Data buffer, the Matrix built on    *)
(* it, the Pyramid of matrices, the Cache/PoolNode free-list pool and the  *)
(* grayscale conversion of ImageProcessing.                                *)
(*                                                                         *)
(* Each component has its own specification (SpecCache, SpecCacheReturns,  *)
(* SpecMatrix, SpecGray, SpecPyramid, SpecData); the variables of the      *)
(* other components stay at their idle values.                             *)
(***************************************************************************)
EXTENDS Integers, Sequences, FiniteSets, TLC

VARIABLES
    \* ---- Cache (memory/cache.ts) ----
    head,        \* Cache.head: a node id, or Null
    tail,        \* Cache.tail: a node id, or Null
    nodes,       \* the PoolNode objects created so far; a node's id is its index
    held,        \* per node, how many get_buffer results of it the caller holds
    cacheOut,    \* the last Cache call: operation, outcome, node, round-trip phase
    borrowLog,   \* while no put_buffer ran since allocate (fresh): the nodes get_buffer returned
    allocArgs    \* the arguments of the allocate() call

cacheVars == <<head, tail, nodes, held, cacheOut, borrowLog, allocArgs>>

VARIABLES
    \* ---- Matrix (core/matrix.ts) ----
    mat,         \* the Matrix object: cols, rows, type, channels, buffer, data
    matOut,      \* the last Matrix call: operation, arguments, whether it built a new buffer
    dataCount    \* how many Data objects exist; the next new one is named dataCount + 1

matVars == <<mat, matOut, dataCount>>

VARIABLES
    \* ---- ImageProcessing.grayscale (image/processing.ts), with mat as dst ----
    gray,        \* the call: its arguments, its locals and its position (pc)
    grayReads,   \* the indices of src read so far in the call
    grayWrites   \* the stores into dst.data so far in the call, in order: <<index, value>>

grayVars == <<gray, grayReads, grayWrites>>

VARIABLES
    \* ---- Pyramid (core/pyramid.ts) ----
    pyr,         \* the Pyramid object: levels, layers, and how often allocate ran
    build,       \* the call of build: its arguments, its locals and its position (pc)
    pyrLog       \* the calls build has made so far, in order: copyTo and pyrdown

pyrVars == <<pyr, build, pyrLog>>

VARIABLES
    \* ---- Data (core/data.ts) ----
    dat,         \* the Data object: the request it was built from, size, its ArrayBuffer's byteLength
    datBytes     \* the first bytes of its ArrayBuffer (at most MaxBytes of them)

dataVars == <<dat, datBytes>>

vars == <<cacheVars, matVars, grayVars, pyrVars, dataVars>>

\* What the operations of one component leave alone
cacheOthers == <<matVars, grayVars, pyrVars, dataVars>>
matOthers == <<cacheVars, grayVars, pyrVars, dataVars>>
grayOthers == <<cacheVars, pyrVars, dataVars>>
pyrOthers == <<cacheVars, matVars, grayVars, dataVars>>
dataOthers == <<cacheVars, matVars, grayVars, pyrVars>>

-----------------------------------------------------------------------------
(* Bounds of the model *)

\* Cache.allocate is called with capacity in 0..MaxCapacity
MaxCapacity == 2

\* Matrix columns and rows are in 0..MaxDim
MaxDim == 2

\* At most MaxData Data objects are created for one Matrix
MaxData == 3

\* grayscale is called with w in 0..MaxW and h in 0..MaxH
MaxW == 5
MaxH == 2

\* A Pyramid has 1..MaxLevels levels and is allocated at most MaxPyramidAllocs times
MaxLevels == 4
MaxPyramidAllocs == 2

\* A Data is requested with 0..MaxRequest bytes, or with one of the
\* LargeRequests at the top of the signed 32-bit range; the model keeps the
\* first MaxBytes bytes of its ArrayBuffer
MaxRequest == 17
MaxBytes == 8

-----------------------------------------------------------------------------
(* Values *)

\* JavaScript null (PoolNode.next, Cache.head, Cache.tail); node ids start at 1
Null == 0

\* JavaScript NaN / undefined in arithmetic: every real quantity of the model
\* is >= 0 or a wrapped 32-bit size, never this value
NaN == 0 - 1

-----------------------------------------------------------------------------
(* core/data.ts *)

\* ToInt32(n + 7) for an integer n in 0 .. 2^31 - 1: the sum wraps around
\* 2^32 when it leaves the signed 32-bit range.
ToInt32Plus7(n) ==
    IF n <= 2147483640
    THEN n + 7
    ELSE ((n - 2147483647) + (7 - 2147483647)) - 2

\* (sizeInBytes + 7) & -8 on 32-bit integers; NaN converts to 0.
\* x & -8 clears the three low bits of the two's complement value.
AlignSize(sizeInBytes) ==
    IF sizeInBytes = NaN
    THEN 0
    ELSE LET x == ToInt32Plus7(sizeInBytes) IN x - (x % 8)

\* new Data(sizeInBytes): a fresh buffer object named ident, of the aligned size.
\* new ArrayBuffer(size) throws a RangeError when size < 0.
DataNew(ident, sizeInBytes) ==
    [id |-> ident, size |-> AlignSize(sizeInBytes)]

DataThrows(sizeInBytes) == AlignSize(sizeInBytes) < 0

-----------------------------------------------------------------------------
(* memory/pool.ts *)

\* new PoolNode(sizeInBytes) as node n; its Data is named <<n, 1>>, and the
\* k-th Data the node gets by resize <<n, k>>
PoolNodeNew(n, sizeInBytes) ==
    LET d == DataNew(<<n, 1>>, sizeInBytes)
    IN  [next |-> Null, data |-> d, size |-> d.size]

\* PoolNode.resize(sizeInBytes): a new Data replaces the node's buffer
PoolNodeResize(node, sizeInBytes) ==
    LET d == DataNew(<<node.data.id[1], node.data.id[2] + 1>>, sizeInBytes)
    IN  [node EXCEPT !.data = d, !.size = d.size]

-----------------------------------------------------------------------------
(* memory/cache.ts *)

\* Sizes the caller asks for, in allocate and in get_buffer
AllocSizes == {1, 9}
GetSizes == {1, 17}

\* A variant of the loop that builds capacity nodes in all
RECURSIVE AllocateLoopOneLess(_, _, _, _, _)
AllocateLoopOneLess(i, capacity, sizeInBytes, ns, tl) ==
    IF i + 1 < capacity
    THEN LET id   == Len(ns) + 1
             nxt  == PoolNodeNew(id, sizeInBytes)
             ns1  == Append([ns EXCEPT ![tl].next = id], nxt)
         IN  AllocateLoopOneLess(i + 1, capacity, sizeInBytes, ns1, id)
    ELSE [nodes |-> ns, tail |-> tl]

\* The for loop of allocate: iteration i appends a new node after tail tl.
\* Returns the heap of nodes and the final tail.
RECURSIVE AllocateLoop(_, _, _, _, _)
AllocateLoop(i, capacity, sizeInBytes, ns, tl) ==
    IF i < capacity
    THEN LET id   == Len(ns) + 1
             nxt  == PoolNodeNew(id, sizeInBytes)
             ns1  == Append([ns EXCEPT ![tl].next = id], nxt)
         IN  AllocateLoop(i + 1, capacity, sizeInBytes, ns1, id)
    ELSE [nodes |-> ns, tail |-> tl]

\* The nodes reachable from node h by following next links (h included)
RECURSIVE ReachFrom(_, _, _)
ReachFrom(h, ns, seen) ==
    IF h = Null \/ h \in seen
    THEN seen
    ELSE ReachFrom(ns[h].next, ns, seen \cup {h})

Chain == ReachFrom(head, nodes, {})

\* The monitor of "get_buffer, then at once put_buffer of the same node, then
\* get_buffer": phase 1 after a successful get_buffer, 2 after the put_buffer
\* of that node right after it, 3 at the get_buffer call right after that.
PhaseAfterGet(ok) ==
    IF cacheOut.phase = 2 THEN 3 ELSE IF ok THEN 1 ELSE 0

PhaseAfterPut(n) ==
    IF cacheOut.phase \in {1, 3} /\ cacheOut.status = "ok" /\ cacheOut.node = n
    THEN 2 ELSE 0

\* Cache.allocate(capacity, sizeInBytes). The model calls it once per Cache,
\* on the freshly constructed object.
Allocate(capacity, sizeInBytes) ==
    /\ nodes = <<>>
    /\ LET first == PoolNodeNew(1, sizeInBytes)
           r     == AllocateLoop(0, capacity, sizeInBytes, <<first>>, 1)
       IN  /\ head' = 1
           /\ tail' = r.tail
           /\ nodes' = r.nodes
           /\ held' = [n \in 1..Len(r.nodes) |-> 0]
    /\ cacheOut' = [op |-> "allocate", status |-> "ok", node |-> Null, phase |-> 0]
    /\ borrowLog' = [fresh |-> TRUE, got |-> <<>>]
    /\ allocArgs' = [capacity |-> capacity, sizeInBytes |-> sizeInBytes]

\* A variant of get_buffer on an exhausted pool that hands back null instead of
\* throwing, and forgets the tail
GetBufferExhaustedReturnsNull(sizeInBytes) ==
    /\ head = Null
    /\ tail' = Null
    /\ cacheOut' = [op |-> "get_buffer", status |-> "ok", node |-> Null,
                    phase |-> PhaseAfterGet(FALSE)]
    /\ UNCHANGED <<head, nodes, held, borrowLog, allocArgs>>

\* Cache.get_buffer(sizeInBytes) when head is null: throws
GetBufferExhausted(sizeInBytes) ==
    /\ head = Null
    /\ cacheOut' = [op |-> "get_buffer", status |-> "throw", node |-> Null,
                    phase |-> PhaseAfterGet(FALSE)]
    /\ UNCHANGED <<head, tail, nodes, held, borrowLog, allocArgs>>

\* Cache.get_buffer(sizeInBytes) when head is a node: detaches and returns it
GetBufferOk(sizeInBytes) ==
    /\ head # Null
    /\ LET node == head
       IN  /\ head' = nodes[node].next
           /\ nodes' = IF sizeInBytes > nodes[node].size
                       THEN [nodes EXCEPT ![node] = PoolNodeResize(@, sizeInBytes)]
                       ELSE nodes
           /\ held' = [held EXCEPT ![node] = @ + 1]
           /\ cacheOut' = [op |-> "get_buffer", status |-> "ok", node |-> node,
                           phase |-> PhaseAfterGet(TRUE)]
           /\ borrowLog' = IF borrowLog.fresh
                           THEN [borrowLog EXCEPT !.got = Append(@, node)]
                           ELSE borrowLog
    /\ UNCHANGED <<tail, allocArgs>>

GetBuffer(sizeInBytes) ==
    \/ GetBufferExhausted(sizeInBytes)
    \/ GetBufferOk(sizeInBytes)

\* A variant of put_buffer that leaves the returned node's stale next link
PutBufferKeepsLink(node) ==
    /\ tail # Null
    /\ nodes' = [nodes EXCEPT ![tail].next = node]
    /\ tail' = node
    /\ held' = [held EXCEPT ![node] = @ - 1]
    /\ cacheOut' = [op |-> "put_buffer", status |-> "ok", node |-> node,
                    phase |-> PhaseAfterPut(node)]
    /\ borrowLog' = [fresh |-> FALSE, got |-> <<>>]
    /\ UNCHANGED <<head, allocArgs>>

\* A variant of put_buffer that links the returned node to head, not to null
PutBufferLinksToHead(node) ==
    /\ tail # Null
    /\ LET ns1 == [nodes EXCEPT ![tail].next = node]
           ns2 == [ns1 EXCEPT ![node].next = head]
       IN  /\ nodes' = ns2
           /\ tail' = node
    /\ held' = [held EXCEPT ![node] = @ - 1]
    /\ cacheOut' = [op |-> "put_buffer", status |-> "ok", node |-> node,
                    phase |-> PhaseAfterPut(node)]
    /\ borrowLog' = [fresh |-> FALSE, got |-> <<>>]
    /\ UNCHANGED <<head, allocArgs>>

\* Cache.put_buffer(node): the three assignments, in the order of the code.
\* (With tail = null the assignment to tail.next throws; a caller holds no
\* node then, so a well-behaved return never meets that case.)
PutBuffer(node) ==
    /\ tail # Null
    /\ LET ns1 == [nodes EXCEPT ![tail].next = node]
           ns2 == [ns1 EXCEPT ![node].next = Null]
       IN  /\ nodes' = ns2
           /\ tail' = node
    /\ held' = [held EXCEPT ![node] = @ - 1]
    /\ cacheOut' = [op |-> "put_buffer", status |-> "ok", node |-> node,
                    phase |-> PhaseAfterPut(node)]
    /\ borrowLog' = [fresh |-> FALSE, got |-> <<>>]
    /\ UNCHANGED <<head, allocArgs>>

\* The state of a Cache after construction
InitCache ==
    /\ head = Null
    /\ tail = Null
    /\ nodes = <<>>
    /\ held = <<>>
    /\ cacheOut = [op |-> "new", status |-> "ok", node |-> Null, phase |-> 0]
    /\ borrowLog = [fresh |-> FALSE, got |-> <<>>]
    /\ allocArgs = [capacity |-> 0, sizeInBytes |-> 0]

CacheAllocate ==
    /\ \E c \in 0..MaxCapacity, s \in AllocSizes : Allocate(c, s)
    /\ UNCHANGED cacheOthers

CacheGet ==
    /\ \E s \in GetSizes : GetBuffer(s)
    /\ UNCHANGED cacheOthers

\* A well-behaved return: the caller holds the node
CachePut ==
    /\ \E n \in {m \in DOMAIN held : held[m] > 0} : PutBuffer(n)
    /\ UNCHANGED cacheOthers

NextCache == CacheAllocate \/ CacheGet \/ CachePut

\* Cache.put_buffer(node) of a node the caller has already returned: the same
\* three assignments; the caller holds no more and no fewer nodes than before
PutBufferReturned(node) ==
    /\ tail # Null
    /\ LET ns1 == [nodes EXCEPT ![tail].next = node]
           ns2 == [ns1 EXCEPT ![node].next = Null]
       IN  /\ nodes' = ns2
           /\ tail' = node
    /\ cacheOut' = [op |-> "put_buffer", status |-> "ok", node |-> node,
                    phase |-> PhaseAfterPut(node)]
    /\ borrowLog' = [fresh |-> FALSE, got |-> <<>>]
    /\ UNCHANGED <<head, held, allocArgs>>

\* A return of a node that was borrowed before, is not held now and is not in
\* the chain. Every node starts in the chain and leaves it only as the result
\* of get_buffer, so a node outside the chain has been borrowed.
CachePutReturned ==
    /\ \E n \in {m \in DOMAIN held : held[m] = 0 /\ m \notin Chain} : PutBufferReturned(n)
    /\ UNCHANGED cacheOthers

\* The calls of a caller who returns only nodes that are outside the chain
NextCacheReturns == CacheAllocate \/ CacheGet \/ CachePut \/ CachePutReturned

-----------------------------------------------------------------------------
(* constants.ts *)

\* enum DataType
U8 == 256
S32 == 512
F32 == 1024
S64 == 2048
F64 == 4096

\* enum Channels
C1 == 1
C2 == 2
C3 == 3
C4 == 4

DataTypes == {U8, S32, F32, S64, F64}
ChannelCounts == {C1, C2, C3, C4}

\* value & 0xff00 and value & 0xff, for a code value >= 0
getDataType(value) == ((value % 65536) \div 256) * 256
getChannel(value) == value % 256

\* DATA_TYPE_SIZE[type]: a missing key reads as undefined, NaN in arithmetic
getDataTypeSize(type) ==
    CASE type = U8  -> 1
      [] type = S32 -> 4
      [] type = F32 -> 4
      [] type = S64 -> 8
      [] type = F64 -> 8
      [] OTHER      -> NaN

\* The product a * b of JavaScript numbers, NaN when an operand is NaN
Times(a, b) == IF a = NaN \/ b = NaN THEN NaN ELSE a * b

\* a > b on JavaScript numbers: false when an operand is NaN
Greater(a, b) == a # NaN /\ b # NaN /\ a > b

-----------------------------------------------------------------------------
(* core/matrix.ts *)

\* Matrix.selectTypedView: the view of the buffer chosen by the type; the
\* switch has no default, so any other type yields undefined
selectTypedView(type, buffer) ==
    [of   |-> buffer.id,
     view |-> CASE type = U8  -> "u8"
                [] type = S32 -> "i32"
                [] type = F32 -> "f32"
                [] type = S64 -> "f64"
                [] type = F64 -> "f64"
                [] OTHER      -> "undefined"]

\* The bytes Matrix.allocate asks of new Data for matrix m
AllocateBytes(m) ==
    LET elements == (m.cols * m.rows) * m.channels
    IN  Times(elements, getDataTypeSize(m.type))

\* Matrix.allocate on matrix m, the new Data being object number ident; when
\* new Data throws, the assignments to buffer and data do not happen
MatrixAllocate(m, ident) ==
    LET bytes  == AllocateBytes(m)
        buffer == DataNew(ident, bytes)
    IN  IF DataThrows(bytes)
        THEN m
        ELSE [m EXCEPT !.buffer = buffer, !.data = selectTypedView(m.type, buffer)]

\* A variant of resize that reallocates only when a whole extra aligned block
\* is needed
ResizeNeedsLate(newSize, size) == Greater(newSize, size + 8)

\* The test of resize: newSize > this.buffer.size
ResizeNeeds(newSize, size) == Greater(newSize, size)

\* Matrix.resize(cols, rows, ch) on matrix m
MatrixResize(m, cols, rows, ch, ident) ==
    LET newSize == Times((cols * rows) * ch, getDataTypeSize(m.type))
        m1      == [m EXCEPT !.cols = cols, !.rows = rows, !.channels = ch]
    IN  IF ResizeNeeds(newSize, m.buffer.size)
        THEN MatrixAllocate(m1, ident)
        ELSE m1

\* new Matrix(cols, rows, type, existingBuffer); cols | 0 and rows | 0 leave
\* the small integers of the model as they are. existing is a Data record, or
\* NoData when the argument is omitted.
NoData == [id |-> 0, size |-> 0]

MatrixNew(cols, rows, type, existing, ident) ==
    LET m0 == [cols |-> cols, rows |-> rows,
               type |-> getDataType(type), channels |-> getChannel(type),
               buffer |-> NoData, data |-> [of |-> 0, view |-> "undefined"]]
    IN  IF existing # NoData
        THEN [m0 EXCEPT !.buffer = existing,
                        !.data = selectTypedView(m0.type, existing)]
        ELSE MatrixAllocate(m0, ident)

\* The combined type codes given to the constructor: each element type, and
\* two codes whose high byte names no element type
TypeCodes ==
    {U8 + C1, U8 + C3, S32 + C2, F32 + C1, S64 + C1, F64 + C4, 8192 + C1, C1}

\* The byte counts of the Data objects a caller passes as existingBuffer
ExistingSizes == {0, 8, 20}

\* The state after new Matrix(...)
InitMatrix ==
    \E cols \in 0..MaxDim, rows \in 0..MaxDim, type \in TypeCodes,
       existing \in {NoData} \cup {DataNew(1, n) : n \in ExistingSizes} :
        /\ mat = MatrixNew(cols, rows, type, existing, 1)
        /\ matOut = [op |-> "new", realloc |-> (existing = NoData),
                     status |-> "ok", args |-> <<cols, rows, getChannel(type)>>]
        /\ dataCount = 1

\* The outcome of a call: "throw" when new Data threw in it
Outcome(threw) == IF threw THEN "throw" ELSE "ok"

\* m.allocate()
MatAllocate ==
    /\ dataCount < MaxData
    /\ mat' = MatrixAllocate(mat, dataCount + 1)
    /\ matOut' = [op |-> "allocate", realloc |-> (mat'.buffer.id # mat.buffer.id),
                  status |-> Outcome(DataThrows(AllocateBytes(mat))),
                  args |-> <<mat.cols, mat.rows, mat.channels>>]
    /\ dataCount' = dataCount + 1
    /\ UNCHANGED matOthers

\* m.resize(cols, rows, ch); omitting ch passes this.channels
Resize(cols, rows, ch) ==
    LET m2      == MatrixResize(mat, cols, rows, ch, dataCount + 1)
        newSize == Times((cols * rows) * ch, getDataTypeSize(mat.type))
        needs   == ResizeNeeds(newSize, mat.buffer.size)
    IN  /\ needs => dataCount < MaxData
        /\ mat' = m2
        /\ matOut' = [op |-> "resize", realloc |-> (m2.buffer.id # mat.buffer.id),
                      status |-> Outcome(needs /\ DataThrows(newSize)),
                      args |-> <<cols, rows, ch>>]
        /\ dataCount' = IF needs THEN dataCount + 1 ELSE dataCount

MatResize ==
    /\ \E cols \in 0..MaxDim, rows \in 0..MaxDim,
          ch \in ChannelCounts \cup {mat.channels} : Resize(cols, rows, ch)
    /\ UNCHANGED matOthers

NextMatrix == MatAllocate \/ MatResize

-----------------------------------------------------------------------------
(* image/processing.ts *)

\* enum ColorConversion (constants.ts)
RGBA2GRAY == 0
RGB2GRAY == 1
BGRA2GRAY == 2
BGR2GRAY == 3

ColorConversions == {RGBA2GRAY, RGB2GRAY, BGRA2GRAY, BGR2GRAY}

\* The format codes given to grayscale: the four of the enum, and one outside
FormatCodes == ColorConversions \cup {7}

\* The source images: "ramp" has the byte (7k + 3) mod 256 at index k, so that
\* the bytes of a small image differ pairwise; "solid" has 254 everywhere.
SrcImages == {"ramp", "solid"}

\* src[k] of a Uint8Array of len bytes: undefined (NaN in arithmetic) outside it
SrcAt(img, len, k) ==
    IF k < 0 \/ k >= len THEN NaN
    ELSE IF img = "ramp" THEN (7 * k + 3) % 256 ELSE 254

\* Double-precision arithmetic on the numbers of the luminance sum. A number
\* x, 0 <= x < 256, that is a multiple of 2^-60 is the tuple <<l0, l1, l2, l3>>
\* of limbs with x * 2^60 = l0 + l1 * 2^20 + l2 * 2^40 + l3 * 2^60: l3 is the
\* integer part of x. Every double met here is such a number.
LimbBase == 2 ^ 20

\* The limbs brought back below LimbBase (limb 3 takes the last carry)
Carry(v) ==
    LET l1 == v[2] + (v[1] \div LimbBase)
        l2 == v[3] + (l1 \div LimbBase)
    IN  <<v[1] % LimbBase, l1 % LimbBase, l2 % LimbBase, v[4] + (l2 \div LimbBase)>>

\* The exact sum u + v, and the exact product v * k for a byte k
AddLimbs(u, v) == Carry(<<u[1] + v[1], u[2] + v[2], u[3] + v[3], u[4] + v[4]>>)
MulSmall(v, k) == Carry(<<v[1] * k, v[2] * k, v[3] * k, v[4] * k>>)

\* The number of bits of x * 2^60
RECURSIVE BitLength(_)
BitLength(n) == IF n = 0 THEN 0 ELSE 1 + BitLength(n \div 2)

Bits(v) ==
    IF v[4] > 0 THEN 60 + BitLength(v[4])
    ELSE IF v[3] > 0 THEN 40 + BitLength(v[3])
    ELSE IF v[2] > 0 THEN 20 + BitLength(v[2])
    ELSE BitLength(v[1])

\* The double nearest to the number v (to v plus a positive amount below
\* 2^-60 when sticky): 53 significant bits, round to nearest, ties to even.
\* The bits dropped all lie in limb 0, since v has at most 68 bits.
RoundToDouble(v, sticky) ==
    IF Bits(v) <= 53 THEN v
    ELSE LET q    == 2 ^ (Bits(v) - 53)
             rem  == v[1] % q
             half == q \div 2
             up   == \/ rem > half
                     \/ rem = half /\ (sticky \/ (v[1] \div q) % 2 = 1)
             down == <<v[1] - rem, v[2], v[3], v[4]>>
         IN  IF up THEN AddLimbs(down, <<q, 0, 0, 0>>) ELSE down

\* The value of a decimal literal of n thousandths (0.299 is DoubleOf(299)):
\* the double nearest to n / 1000, by long division of n * 2^60 by 1000
DoubleOf(n) ==
    LET d3 == n
        d2 == (d3 % 1000) * LimbBase
        d1 == (d2 % 1000) * LimbBase
        d0 == (d1 % 1000) * LimbBase
    IN  RoundToDouble(<<d0 \div 1000, d1 \div 1000, d2 \div 1000, d3 \div 1000>>,
                      d0 % 1000 # 0)

\* const WR = 0.299; const WG = 0.587; const WB = 0.114;
WR == DoubleOf(299)
WG == DoubleOf(587)
WB == DoubleOf(114)

\* (WR * r + WG * g + WB * b) | 0 in double precision: each product and each
\* sum, left to right, is rounded to a double, and | 0 truncates the
\* result; NaN | 0 is 0
Luminance(r, g, b) ==
    IF r = NaN \/ g = NaN \/ b = NaN THEN 0
    ELSE LET pr == RoundToDouble(MulSmall(WR, r), FALSE)
             pg == RoundToDouble(MulSmall(WG, g), FALSE)
             pb == RoundToDouble(MulSmall(WB, b), FALSE)
             s1 == RoundToDouble(AddLimbs(pr, pg), FALSE)
             s2 == RoundToDouble(AddLimbs(s1, pb), FALSE)
         IN  s2[4]

\* Lines 37-59: the channel layout chosen by the code
DecodeFormat(code) ==
    LET bgr   == code = BGRA2GRAY \/ code = BGR2GRAY
        three == code = RGB2GRAY \/ code = BGR2GRAY
    IN  [cn   |-> IF three THEN 3 ELSE 4,
         idxR |-> IF bgr THEN 2 ELSE 0,
         idxG |-> 1,
         idxB |-> IF bgr THEN 0 ELSE 2]

\* The number of elements of the typed view of a buffer of size bytes
ViewLength(view, size) ==
    CASE view = "u8"  -> size
      [] view = "i32" -> size \div 4
      [] view = "f32" -> size \div 4
      [] view = "f64" -> size \div 8
      [] OTHER        -> 0

\* The luminance of the pixel whose first byte is src[at]
PixelGray(g, at) ==
    Luminance(SrcAt(g.src, g.len, at + g.idxR),
              SrcAt(g.src, g.len, at + g.idxG),
              SrcAt(g.src, g.len, at + g.idxB))

PixelReads(g, at) == {at + g.idxR, at + g.idxG, at + g.idxB}

\* dst_u8[j] = v for each <<j, v>> of stores, in order: an index outside the
\* typed array is dropped without error
Stored(stores) ==
    SelectSeq(stores, LAMBDA st : st[1] >= 0 /\ st[1] < ViewLength(mat.data.view, mat.buffer.size))

\* A variant of the bound of the unrolled loop that lets it start with three
\* pixels left in the row
UnrolledLimitThree(rowStartDst, w) == rowStartDst + (w - 3)

\* const limit = rowStartDst + (w - 4)
UnrolledLimit(rowStartDst, w) == rowStartDst + (w - 4)

\* grayscale(src, w, h, dst, code) up to the first row: decode the format,
\* dst.resize(w, h, Channels.C1), take dst.data, i = j = 0, y = 0
GrayCall(img, w, h, code) ==
    /\ gray.pc = "idle"
    /\ LET f       == DecodeFormat(code)
           newSize == Times((w * h) * C1, getDataTypeSize(mat.type))
           needs   == ResizeNeeds(newSize, mat.buffer.size)
       IN  /\ needs => dataCount < MaxData
           /\ mat' = MatrixResize(mat, w, h, C1, dataCount + 1)
           /\ matOut' = [op |-> "resize", realloc |-> (mat'.buffer.id # mat.buffer.id),
                         status |-> Outcome(needs /\ DataThrows(newSize)),
                         args |-> <<w, h, C1>>]
           /\ dataCount' = IF needs THEN dataCount + 1 ELSE dataCount
           /\ gray' = [pc |-> "row", src |-> img, len |-> (w * h) * f.cn,
                       w |-> w, h |-> h, code |-> code,
                       cn |-> f.cn, idxR |-> f.idxR, idxG |-> f.idxG, idxB |-> f.idxB,
                       y |-> 0, i |-> 0, j |-> 0, rowStartDst |-> 0, limit |-> 0]
    /\ grayReads' = {}
    /\ grayWrites' = <<>>
    /\ UNCHANGED grayOthers

\* for (let y = 0; y < h; y++): the test, and the start of a row
GrayRow ==
    /\ gray.pc = "row"
    /\ IF gray.y < gray.h
       THEN LET rowStartSrc == (gray.y * gray.w) * gray.cn
                rowStartDst == gray.y * gray.w
            IN  gray' = [gray EXCEPT !.pc = "unrolled",
                                     !.i = rowStartSrc, !.j = rowStartDst,
                                     !.rowStartDst = rowStartDst,
                                     !.limit = UnrolledLimit(rowStartDst, gray.w)]
       ELSE gray' = [gray EXCEPT !.pc = "done"]
    /\ UNCHANGED <<grayReads, grayWrites, matVars, grayOthers>>

\* while (j <= limit): one iteration of the unrolled loop, or its exit.
\* The four sums are computed first, then stored at j, j+1, j+2, j+3.
\* A store into an undefined dst.data throws a TypeError.
GrayUnrolled ==
    /\ gray.pc = "unrolled"
    /\ IF gray.j <= gray.limit
       THEN LET step == gray.cn
                i    == gray.i
                j    == gray.j
                g0   == PixelGray(gray, i)
                g1   == PixelGray(gray, i + step)
                g2   == PixelGray(gray, i + step * 2)
                g3   == PixelGray(gray, i + step * 3)
            IN  /\ grayReads' = grayReads \cup PixelReads(gray, i)
                                  \cup PixelReads(gray, i + step)
                                  \cup PixelReads(gray, i + step * 2)
                                  \cup PixelReads(gray, i + step * 3)
                /\ IF mat.data.view = "undefined"
                   THEN /\ gray' = [gray EXCEPT !.pc = "threw"]
                        /\ grayWrites' = grayWrites
                   ELSE /\ gray' = [gray EXCEPT !.i = i + step * 4, !.j = j + 4]
                        /\ grayWrites' = grayWrites \o
                              Stored(<< <<j, g0>>, <<j + 1, g1>>,
                                        <<j + 2, g2>>, <<j + 3, g3>> >>)
       ELSE /\ gray' = [gray EXCEPT !.pc = "remainder"]
            /\ UNCHANGED <<grayReads, grayWrites>>
    /\ UNCHANGED <<matVars, grayOthers>>

\* while (j < rowStartDst + w): one pixel, or the end of the row (y++)
GrayRemainder ==
    /\ gray.pc = "remainder"
    /\ IF gray.j < gray.rowStartDst + gray.w
       THEN /\ grayReads' = grayReads \cup PixelReads(gray, gray.i)
            /\ IF mat.data.view = "undefined"
               THEN /\ gray' = [gray EXCEPT !.pc = "threw"]
                    /\ grayWrites' = grayWrites
               ELSE /\ gray' = [gray EXCEPT !.i = gray.i + gray.cn, !.j = gray.j + 1]
                    /\ grayWrites' = grayWrites \o
                          Stored(<< <<gray.j, PixelGray(gray, gray.i)>> >>)
       ELSE /\ gray' = [gray EXCEPT !.pc = "row", !.y = gray.y + 1]
            /\ UNCHANGED <<grayReads, grayWrites>>
    /\ UNCHANGED <<matVars, grayOthers>>

\* No call of grayscale is under way
NoCall ==
    [pc |-> "idle", src |-> "ramp", len |-> 0, w |-> 0, h |-> 0, code |-> 0,
     cn |-> 0, idxR |-> 0, idxG |-> 0, idxB |-> 0,
     y |-> 0, i |-> 0, j |-> 0, rowStartDst |-> 0, limit |-> 0]

IdleGray ==
    /\ gray = NoCall
    /\ grayReads = {}
    /\ grayWrites = <<>>

\* The call is over (it returned, or threw): its locals are gone, dst stays
GrayReturn ==
    /\ gray.pc \in {"done", "threw"}
    /\ gray' = NoCall
    /\ grayReads' = {}
    /\ grayWrites' = <<>>
    /\ UNCHANGED <<matVars, grayOthers>>

\* The destination matrices grayscale is given: of every type code, empty or of
\* the largest dimensions, owning their buffer or built over an empty one
InitGrayDst ==
    \E cols \in {0, MaxDim}, rows \in {0, MaxDim}, type \in TypeCodes,
       existing \in {NoData, DataNew(1, 0)} :
        /\ mat = MatrixNew(cols, rows, type, existing, 1)
        /\ matOut = [op |-> "new", realloc |-> (existing = NoData),
                     status |-> "ok", args |-> <<cols, rows, getChannel(type)>>]
        /\ dataCount = 1

GrayStart ==
    \E img \in SrcImages, w \in 0..MaxW, h \in 0..MaxH, code \in FormatCodes :
        GrayCall(img, w, h, code)

NextGray == GrayStart \/ GrayRow \/ GrayUnrolled \/ GrayRemainder \/ GrayReturn

-----------------------------------------------------------------------------
(* core/pyramid.ts *)

\* Matrix objects are named <<g, k>>: layer k - 1 built by the g-th allocate.
\* An empty slot of the layers array is undefined; the caller's own matrix,
\* which is no layer, is External.
Undefined == <<0, 0>>
External == <<0, 1>>

\* What build needs of a Matrix: its name, its dimensions and the kind of its
\* data view
UndefinedLayer ==
    [id |-> Undefined, cols |-> 0, rows |-> 0, channels |-> 0, view |-> "undefined"]

\* new Matrix(cols, rows, type), named ident
MatrixOf(ident, cols, rows, type) ==
    LET m == MatrixNew(cols, rows, type, NoData, ident)
    IN  [id |-> ident, cols |-> m.cols, rows |-> m.rows, channels |-> m.channels,
         view |-> m.data.view]

\* n >> i for n >= 0
ShiftRight(n, i) == n \div (2 ^ i)

\* new Pyramid(levels): levels | 0 levels, layers an array of empty slots
PyramidNew(levels) ==
    [levels |-> levels, layers |-> [k \in 1..levels |-> UndefinedLayer], allocs |-> 0]

\* The loop of allocate: layers[i] = new Matrix(startW >> i, startH >> i, type)
PyramidAllocate(p, startW, startH, type) ==
    [p EXCEPT !.layers = [k \in 1..p.levels |->
                            MatrixOf(<<p.allocs + 1, k>>, ShiftRight(startW, k - 1),
                                     ShiftRight(startH, k - 1), type)],
              !.allocs = p.allocs + 1]

\* this.layers[i]: undefined beyond the end of the array
Layer(p, i) == IF i + 1 \in DOMAIN p.layers THEN p.layers[i + 1] ELSE UndefinedLayer

\* The name of this.layers[i]
LayerAt(p, i) == Layer(p, i).id

\* The type codes given to allocate and to the caller's own matrix: two with
\* a typed view, one whose high byte names no element type
PyramidTypes == {U8 + C1, F64 + C4, 8192 + C1}

\* The caller's own matrices: empty or 8 x 8, of each of the types
ExternalInputs == {MatrixOf(External, c, c, type) : c \in {0, 8}, type \in PyramidTypes}

\* src.copyTo(dst) throws a TypeError: dst is undefined (other.data), or there
\* is an element to copy and src.data or dst.data is undefined (dst[i] = src[i])
CopyToThrows(src, dst) ==
    \/ dst.id = Undefined
    \/ /\ (src.cols * src.rows) * src.channels > 0
       /\ (src.view = "undefined" \/ dst.view = "undefined")

\* The base sizes given to allocate
StartSizes == {0, 5, 8}

\* No call of build is under way
NoBuild == [pc |-> "idle", input |-> Undefined, skipFirst |-> TRUE,
            a |-> Undefined, b |-> Undefined, i |-> 0]

\* The state after new Pyramid(levels)
InitPyramid ==
    /\ \E levels \in 1..MaxLevels : pyr = PyramidNew(levels)
    /\ build = NoBuild
    /\ pyrLog = <<>>

\* p.allocate(startW, startH, type)
PyrAllocate ==
    /\ build.pc = "idle"
    /\ pyr.allocs < MaxPyramidAllocs
    /\ \E startW \in StartSizes, startH \in StartSizes, type \in PyramidTypes :
          pyr' = PyramidAllocate(pyr, startW, startH, type)
    /\ UNCHANGED <<build, pyrLog, pyrOthers>>

\* build(input, pyrdown, skipFirst) up to the first pyrdown: when skipFirst is
\* false, input.copyTo(this.layers[0]), which may throw a TypeError
BuildCall(input, skipFirst) ==
    /\ build.pc = "idle"
    /\ IF ~skipFirst /\ CopyToThrows(input, Layer(pyr, 0))
       THEN /\ build' = [NoBuild EXCEPT !.pc = "threw", !.input = input.id,
                                        !.skipFirst = skipFirst]
            /\ pyrLog' = <<>>
       ELSE /\ build' = [NoBuild EXCEPT !.pc = "first", !.input = input.id,
                                        !.skipFirst = skipFirst]
            /\ pyrLog' = IF ~skipFirst
                         THEN <<[fn |-> "copyTo", src |-> input.id, dst |-> LayerAt(pyr, 0)]>>
                         ELSE <<>>
    /\ UNCHANGED <<pyr, pyrOthers>>

\* The matrices a caller can pass as input: its own, or a layer of the pyramid
PyrBuild ==
    \E input \in ExternalInputs
                  \cup ({Layer(pyr, i) : i \in 0..(pyr.levels - 1)} \ {UndefinedLayer}),
       skipFirst \in BOOLEAN :
        BuildCall(input, skipFirst)

\* let a = input; let b = this.layers[1]; pyrdown(a, b);  then i = 2
PyrFirst ==
    /\ build.pc = "first"
    /\ LET a == build.input
           b == LayerAt(pyr, 1)
       IN  /\ pyrLog' = Append(pyrLog, [fn |-> "pyrdown", src |-> a, dst |-> b])
           /\ build' = [build EXCEPT !.pc = "loop", !.a = a, !.b = b, !.i = 2]
    /\ UNCHANGED <<pyr, pyrOthers>>

\* A variant of the loop body that keeps a, so that every level is built from
\* the input
NextSourceKeeps(a, b) == a

\* a = b
NextSource(a, b) == b

\* for (let i = 2; i < this.levels; i++) { a = b; b = this.layers[i]; pyrdown(a, b); }
PyrLoop ==
    /\ build.pc = "loop"
    /\ IF build.i < pyr.levels
       THEN LET a == NextSource(build.a, build.b)
                b == LayerAt(pyr, build.i)
            IN  /\ pyrLog' = Append(pyrLog, [fn |-> "pyrdown", src |-> a, dst |-> b])
                /\ build' = [build EXCEPT !.a = a, !.b = b, !.i = build.i + 1]
       ELSE /\ build' = [build EXCEPT !.pc = "done"]
            /\ pyrLog' = pyrLog
    /\ UNCHANGED <<pyr, pyrOthers>>

\* The call is over (it returned, or threw)
PyrReturn ==
    /\ build.pc \in {"done", "threw"}
    /\ build' = NoBuild
    /\ pyrLog' = <<>>
    /\ UNCHANGED <<pyr, pyrOthers>>

NextPyramid == PyrAllocate \/ PyrBuild \/ PyrFirst \/ PyrLoop \/ PyrReturn

-----------------------------------------------------------------------------
(* core/data.ts: the Data object and its views *)

\* No existing ArrayBuffer is passed (the argument is undefined)
NoExisting == 0 - 1

\* The requests next to 2^31 - 1, where sizeInBytes + 7 leaves the signed
\* 32-bit range
LargeRequests == {2147483647 - k : k \in 0..9}

\* byteLength of the ArrayBuffers the caller passes as existing; a typed-array
\* constructor throws a RangeError on a length that is no multiple of its
\* element size
ExistingLengths == {0, 8, 12, 16}

\* new Int32Array / Float32Array / Float64Array over a buffer of this length throws
ViewsThrow(byteLength) == byteLength % 4 # 0 \/ byteLength % 8 # 0

\* new Data(sizeInBytes, existing): size from the request; the buffer is
\* existing, or a new ArrayBuffer(size), which throws on a negative size; then
\* the four views are built over the buffer
DataConstruct(sizeInBytes, existing) ==
    LET size       == AlignSize(sizeInBytes)
        fresh      == existing = NoExisting
        threw      == IF fresh THEN size < 0 ELSE ViewsThrow(existing)
        byteLength == IF fresh THEN size ELSE existing
    IN  [status |-> Outcome(threw), req |-> sizeInBytes, wrapped |-> ~fresh,
         size |-> size, byteLength |-> IF threw THEN 0 ELSE byteLength]

\* The bytes of a buffer the model keeps: a new ArrayBuffer is zero-filled,
\* and so are the existing ones passed here
ZeroBytes(byteLength) ==
    [k \in 1..(IF byteLength < MaxBytes THEN byteLength ELSE MaxBytes) |-> 0]

\* new ArrayBuffer(size) of a large size may also fail for want of memory
\* (a RangeError): the constructor throws and there is no object
AllocationFailed(sizeInBytes) ==
    [status |-> "throw", req |-> sizeInBytes, wrapped |-> FALSE,
     size |-> AlignSize(sizeInBytes), byteLength |-> 0]

\* The Data objects under study: every request, allocating or wrapping
InitData ==
    \E n \in (0..MaxRequest) \cup LargeRequests,
       existing \in {NoExisting} \cup ExistingLengths :
        /\ \/ dat = DataConstruct(n, existing)
           \/ (n \in LargeRequests /\ existing = NoExisting /\ dat = AllocationFailed(n))
        /\ datBytes = ZeroBytes(dat.byteLength)

\* data.u8[i] = v: a store past the end of the view is dropped
DataStoreU8 ==
    /\ dat.status = "ok"
    /\ \E i \in 0..MaxBytes, v \in {0, 255} :
          datBytes' = [k \in DOMAIN datBytes |->
                         IF k - 1 = i /\ i < dat.byteLength THEN v ELSE datBytes[k]]
    /\ UNCHANGED <<dat, dataOthers>>

\* data.i32[i] = v for v = 0 (bytes 00) and v = -1 (bytes FF): the four bytes
\* from 4 * i, in either byte order; a store past the end of the view is dropped
DataStoreI32 ==
    /\ dat.status = "ok"
    /\ \E i \in 0..(MaxBytes \div 4), b \in {0, 255} :
          datBytes' = [k \in DOMAIN datBytes |->
                         IF (k - 1) \div 4 = i /\ i < dat.byteLength \div 4
                         THEN b ELSE datBytes[k]]
    /\ UNCHANGED <<dat, dataOthers>>

NextData == DataStoreU8 \/ DataStoreI32

-----------------------------------------------------------------------------
(* Idle values of the components a specification does not exercise *)

IdleData ==
    /\ dat = DataConstruct(0, NoExisting)
    /\ datBytes = <<>>

IdleMatrix ==
    /\ mat = [cols |-> 0, rows |-> 0, type |-> 0, channels |-> 0,
              buffer |-> NoData, data |-> [of |-> 0, view |-> "undefined"]]
    /\ matOut = [op |-> "none", realloc |-> FALSE, status |-> "ok", args |-> <<0, 0, 0>>]
    /\ dataCount = 0

IdlePyramid ==
    /\ pyr = PyramidNew(0)
    /\ build = NoBuild
    /\ pyrLog = <<>>

-----------------------------------------------------------------------------
(* Specifications *)

IdleCache == InitCache

InitSpecCache == InitCache /\ IdleMatrix /\ IdleGray /\ IdlePyramid /\ IdleData

SpecCache == InitSpecCache /\ [][NextCache]_vars

SpecCacheReturns == InitSpecCache /\ [][NextCacheReturns]_vars

InitSpecMatrix == InitMatrix /\ IdleCache /\ IdleGray /\ IdlePyramid /\ IdleData

SpecMatrix == InitSpecMatrix /\ [][NextMatrix]_vars

InitSpecGray == InitGrayDst /\ IdleGray /\ IdleCache /\ IdlePyramid /\ IdleData

SpecGray == InitSpecGray /\ [][NextGray]_vars

InitSpecPyramid == InitPyramid /\ IdleCache /\ IdleMatrix /\ IdleGray /\ IdleData

SpecPyramid == InitSpecPyramid /\ [][NextPyramid]_vars

InitSpecData == InitData /\ IdleCache /\ IdleMatrix /\ IdleGray /\ IdlePyramid

SpecData == InitSpecData /\ [][NextData]_vars

-----------------------------------------------------------------------------
(* Properties of the pool *)

\* The nodes the caller holds, and the free ones (never borrowed, or returned)
Held == {n \in DOMAIN held : held[n] > 0}
Free == {n \in DOMAIN held : held[n] = 0}

\* The nodes met from node h along next links, in order (a cycle ends the walk)
RECURSIVE WalkFrom(_, _, _)
WalkFrom(h, ns, acc) ==
    IF h = Null \/ h \in {acc[i] : i \in DOMAIN acc}
    THEN acc
    ELSE WalkFrom(ns[h].next, ns, Append(acc, h))

\* C1: a successful get_buffer followed at once by put_buffer of the node it
\* returned is followed by a get_buffer that succeeds: the get_buffer call
\* right after such a round trip never fails with exhaustion.
C1_RoundTripThenGetSucceeds ==
    (cacheOut.op = "get_buffer" /\ cacheOut.phase = 3) => cacheOut.status = "ok"

\* C3: in every state after allocate(), head is null exactly when every node
\* of the pool is borrowed and none is free.
C3_HeadNullIffExhausted ==
    nodes # <<>> => ((head = Null) <=> (Free = {}))

\* C4: no node the caller holds is reachable from head along next links, and
\* no node is handed out twice while outstanding.
C4_HeldNotInChain ==
    \A n \in DOMAIN held : held[n] <= 1 /\ (held[n] = 1 => n \notin Chain)

\* C4 witness: the caller holds a node whose stale next link still points at a
\* node of the chain, while another node has been returned and appended.
C4_Witness ==
    \E n \in Held :
        /\ nodes[n].next # Null
        /\ nodes[n].next \in Chain
        /\ cacheOut.op = "put_buffer"
        /\ cacheOut.node \in Chain

\* C5: a get_buffer call on a Cache whose head is null throws and leaves
\* head, tail and every node (next link, buffer, size) as they were.
C5_ExhaustedGetThrowsUnchanged ==
    [][(head = Null /\ CacheGet)
         => (/\ cacheOut'.op = "get_buffer"
             /\ cacheOut'.status = "throw"
             /\ cacheOut'.node = Null
             /\ UNCHANGED <<head, tail, nodes>>)]_vars

\* C5 witness: get_buffer has thrown on an allocated pool all of whose nodes
\* are borrowed.
C5_Witness ==
    /\ nodes # <<>>
    /\ head = Null
    /\ cacheOut.op = "get_buffer"
    /\ cacheOut.status = "throw"

\* C9: allocate(capacity, sizeInBytes) builds a chain of capacity + 1 distinct
\* nodes whose buffers have sizeInBytes rounded up to a multiple of 8; with no
\* put_buffer since, get_buffer succeeds exactly capacity + 1 times, returns
\* the nodes in chain order, pairwise distinct, and then head is null.
C9_AllocateBuildsCapacityPlusOne ==
    LET cap == allocArgs.capacity
        req == allocArgs.sizeInBytes
        got == borrowLog.got
    IN  borrowLog.fresh =>
          /\ Len(nodes) = cap + 1
          /\ cacheOut.op = "allocate" =>
                /\ WalkFrom(head, nodes, <<>>) = [i \in 1..(cap + 1) |-> i]
                /\ tail = cap + 1
                /\ \A n \in DOMAIN nodes :
                      /\ nodes[n].size = nodes[n].data.size
                      /\ nodes[n].size % 8 = 0
                      /\ nodes[n].size >= req
                      /\ nodes[n].size - req < 8
                /\ \A m, n \in DOMAIN nodes :
                      m # n => nodes[m].data.id # nodes[n].data.id
          /\ Len(got) <= cap + 1
          /\ \A i \in DOMAIN got : got[i] = i
          /\ \A i, j \in DOMAIN got : i # j => got[i] # got[j]
          /\ (head = Null) <=> (Len(got) = cap + 1)
          /\ (cacheOut.op = "get_buffer" /\ cacheOut.status = "throw")
                => Len(got) = cap + 1

\* C9 witness: capacity + 1 >= 2 consecutive get_buffer calls have succeeded on
\* a fresh pool and emptied it.
C9_Witness ==
    /\ borrowLog.fresh
    /\ allocArgs.capacity >= 1
    /\ Len(borrowLog.got) = allocArgs.capacity + 1
    /\ head = Null
    /\ cacheOut.op = "get_buffer"
    /\ cacheOut.status = "ok"

\* The node reached from node h after k steps along next links, or Null if
\* the links end before that
RECURSIVE NodeAfter(_, _, _)
NodeAfter(h, ns, k) ==
    IF k = 0 \/ h = Null THEN h ELSE NodeAfter(ns[h].next, ns, k - 1)

\* C13: in every state after allocate(), when put_buffer is only called with
\* nodes borrowed before and not in the chain, following next links from head
\* meets no node twice and reaches null within capacity + 1 steps, whatever
\* stale next links the nodes outside the chain still carry.
C13_ChainAcyclic ==
    nodes # <<>> =>
        LET w == WalkFrom(head, nodes, <<>>)
        IN  /\ Len(w) <= allocArgs.capacity + 1
            /\ w # <<>> => nodes[w[Len(w)]].next = Null
            /\ NodeAfter(head, nodes, allocArgs.capacity + 1) = Null

\* C13 witness: after a put_buffer the chain has two nodes or more, while the
\* caller holds a node whose stale next link still points at a node.
C13_Witness ==
    /\ cacheOut.op = "put_buffer"
    /\ Len(WalkFrom(head, nodes, <<>>)) >= 2
    /\ \E n \in Held : nodes[n].next # Null

-----------------------------------------------------------------------------
(* Properties of the Matrix *)

\* The bytes a matrix of a recognised element type needs for its dimensions
RequiredBytes(cols, rows, ch, type) == ((cols * rows) * ch) * getDataTypeSize(type)

\* C2: resize(cols, rows, ch) on a matrix of a recognised element type sets the
\* dimensions and reallocates exactly when the required bytes exceed the
\* current buffer.size: otherwise buffer and view are the same objects as
\* before; if so the buffer is a new object of size >= the required bytes and
\* the view is the same kind of view, of the new buffer.
C2_ResizeReallocatesIffLarger ==
    [][(mat.type \in DataTypes /\ matOut'.op = "resize") =>
            LET cols     == matOut'.args[1]
                rows     == matOut'.args[2]
                ch       == matOut'.args[3]
                required == RequiredBytes(cols, rows, ch, mat.type)
            IN  /\ mat'.cols = cols /\ mat'.rows = rows /\ mat'.channels = ch
                /\ mat'.type = mat.type
                /\ IF required <= mat.buffer.size
                   THEN mat'.buffer = mat.buffer /\ mat'.data = mat.data
                   ELSE /\ mat'.buffer.id # mat.buffer.id
                        /\ mat'.buffer.id > dataCount
                        /\ mat'.buffer.size >= required
                        /\ mat'.data.of = mat'.buffer.id
                        /\ mat'.data.view = mat.data.view]_vars

\* C2 witness: a resize kept a buffer that an earlier resize or allocate had
\* built, although the required bytes are now at least a whole block smaller.
C2_Witness ==
    /\ mat.type \in DataTypes
    /\ matOut.op = "resize"
    /\ ~matOut.realloc
    /\ mat.buffer.id > 1
    /\ mat.cols * mat.rows > 0
    /\ RequiredBytes(mat.cols, mat.rows, mat.channels, mat.type) + 8 <= mat.buffer.size

\* C6: in every state of a Matrix of a recognised element type,
\* buffer.size >= cols * rows * channels * elementSizeBytes.
C6_BufferHoldsMatrix ==
    mat.type \in DataTypes =>
        mat.buffer.size >= RequiredBytes(mat.cols, mat.rows, mat.channels, mat.type)

-----------------------------------------------------------------------------
(* Properties of grayscale *)

\* The layout the four format codes stand for: bytes per pixel, and the
\* offsets of red, green and blue in a pixel
StrideOf(code) == IF code \in {RGB2GRAY, BGR2GRAY} THEN 3 ELSE 4
RedOf(code) == IF code \in {BGRA2GRAY, BGR2GRAY} THEN 2 ELSE 0
GreenOf(code) == 1
BlueOf(code) == IF code \in {BGRA2GRAY, BGR2GRAY} THEN 0 ELSE 2

\* The k-th store (k = 1, 2, ...) of the one-pixel-at-a-time conversion of the
\* source of call g: destination index k - 1 gets the luminance of pixel k - 1
ReferenceStore(g, k) ==
    LET cn  == StrideOf(g.code)
        len == (g.w * g.h) * cn
        at  == (k - 1) * cn
    IN  <<k - 1, Luminance(SrcAt(g.src, len, at + RedOf(g.code)),
                           SrcAt(g.src, len, at + GreenOf(g.code)),
                           SrcAt(g.src, len, at + BlueOf(g.code)))>>

\* C7: for each of the four format codes and a destination of a recognised
\* element type, the stores of grayscale are, at every point of the call, a
\* prefix of the stores of the one-pixel-at-a-time reference (index k gets the
\* luminance of pixel k, in increasing order, each index once, none >= w*h);
\* every read of src is of a red, green or blue byte below w*h*cn, never of
\* alpha; and when the call returns all w*h pixels are stored and all their
\* colour bytes read.
C7_UnrolledEqualsReference ==
    (gray.pc # "idle" /\ gray.code \in ColorConversions /\ mat.type \in DataTypes) =>
        LET cn == StrideOf(gray.code)
            n  == gray.w * gray.h
        IN  /\ gray.pc # "threw"
            /\ Len(grayWrites) <= n
            /\ \A k \in DOMAIN grayWrites : grayWrites[k] = ReferenceStore(gray, k)
            /\ \A x \in grayReads : x >= 0 /\ x < n * cn /\ x % cn # 3
            /\ gray.pc = "done" =>
                  /\ Len(grayWrites) = n
                  /\ grayReads = {x \in 0..(n * cn - 1) : x % cn # 3}

\* C7 witness: a call has returned for an image of at least two rows whose
\* width is above four and no multiple of four, in a BGR-family format.
C7_Witness ==
    /\ gray.pc = "done"
    /\ gray.code = BGR2GRAY
    /\ mat.type \in DataTypes
    /\ gray.w > 4 /\ gray.w % 4 # 0 /\ gray.h >= 2
    /\ Len(grayWrites) = gray.w * gray.h

\* C10: an unrecognised code is rejected: a Matrix call with a type code whose
\* high byte is no element type ends in an error, and a grayscale call with a
\* format code outside the four ends in an error without a pixel written.
C10_UnrecognizedCodeRejected ==
    /\ (matOut.op # "none" /\ mat.type \notin DataTypes) => matOut.status = "throw"
    /\ (gray.pc # "idle" /\ gray.code \notin ColorConversions) =>
          (gray.pc = "threw" /\ grayWrites = <<>>)

\* C11: when grayscale(src, w, h, dst, code) has returned, whatever dst was
\* before, dst is a one-channel 8-bit unsigned matrix of the input's size:
\* cols = w, rows = h, channels = 1, element type U8, the active view the
\* 8-bit unsigned view of its own buffer, and a buffer of at least w*h bytes.
\* Stated for every dst whose type code names an element type.
C11_DstIsU8C1 ==
    (gray.pc = "done" /\ mat.type \in DataTypes) =>
        /\ mat.cols = gray.w
        /\ mat.rows = gray.h
        /\ mat.channels = C1
        /\ mat.type = U8
        /\ mat.data = [of |-> mat.buffer.id, view |-> "u8"]
        /\ mat.buffer.size >= gray.w * gray.h

\* The part of C11 that resize does establish: the dimensions and the channel
\* count of dst are those of the call
C11_DstHasCallDimensions ==
    gray.pc = "done" =>
        (mat.cols = gray.w /\ mat.rows = gray.h /\ mat.channels = C1)

-----------------------------------------------------------------------------
(* Properties of Data *)

\* C12: for every request n >= 0 of the signed 32-bit range, a constructed
\* Data, allocating or wrapping, has size = (n + 7) & -8 (32-bit, wrapping),
\* and that is the smallest multiple of 8 that is >= n: size mod 8 = 0,
\* size >= n and size - n < 8; and no later store through a view changes size.
C12_SizeIsSmallestMultipleOf8 ==
    dat.status = "ok" =>
        /\ dat.size = AlignSize(dat.req)
        /\ dat.size % 8 = 0
        /\ dat.size >= dat.req
        /\ dat.size - dat.req < 8

\* What does hold: the size is the wrapped 32-bit value and a multiple of 8
\* in every state, it is the smallest multiple of 8 at or above the request
\* when n + 7 stays in the signed 32-bit range, and an allocating constructor
\* never completes with a negative size
C12_AlignedWithoutWrap ==
    dat.status = "ok" =>
        /\ dat.size = AlignSize(dat.req)
        /\ dat.size % 8 = 0
        /\ dat.req <= 2147483647 - 7 => (dat.size >= dat.req /\ dat.size - dat.req < 8)
        /\ ~dat.wrapped => (dat.size >= 0 /\ dat.byteLength = dat.size)

-----------------------------------------------------------------------------
(* Properties of Pyramid.build *)

\* The pyrdown calls of the build under way, in order
DownCalls == SelectSeq(pyrLog, LAMBDA e : e.fn = "pyrdown")

\* A build of an allocated pyramid of at least two levels has returned
BuildDone == build.pc = "done" /\ pyr.levels >= 2 /\ pyr.allocs > 0

\* The parts of C8 that name the calls: levels - 1 calls, the first
\* pyrdown(input, levels[1]), the i-th pyrdown(levels[i-1], levels[i]); each
\* call after the first takes the destination of the one before as source;
\* each of levels[1..levels-1] is a destination exactly once.
DownCallsInOrder ==
    /\ Len(DownCalls) = pyr.levels - 1
    /\ DownCalls[1].src = build.input
    /\ DownCalls[1].dst = LayerAt(pyr, 1)
    /\ \A i \in 2..(pyr.levels - 1) :
          /\ DownCalls[i].src = LayerAt(pyr, i - 1)
          /\ DownCalls[i].dst = LayerAt(pyr, i)
          /\ DownCalls[i].src = DownCalls[i - 1].dst
    /\ \A lvl \in 1..(pyr.levels - 1) :
          Cardinality({k \in DOMAIN DownCalls : DownCalls[k].dst = LayerAt(pyr, lvl)}) = 1

\* The part of C8 about level 0 and skipFirst: with skipFirst true build makes
\* no call that writes levels[0]; with skipFirst false its first call is
\* input.copyTo(levels[0]), before every pyrdown, and it copies only once.
LevelZeroCopy ==
    IF build.skipFirst
    THEN \A k \in DOMAIN pyrLog : pyrLog[k].fn # "copyTo" /\ pyrLog[k].dst # LayerAt(pyr, 0)
    ELSE /\ pyrLog[1] = [fn |-> "copyTo", src |-> build.input, dst |-> LayerAt(pyr, 0)]
         /\ \A k \in 2..Len(pyrLog) : pyrLog[k].fn = "pyrdown" /\ pyrLog[k].dst # LayerAt(pyr, 0)

\* C8 as claimed: when build returns, the pyrdown calls are the levels - 1
\* calls in order, levels[0] is passed to no pyrdown call (as source or as
\* destination), and level 0 is copied into exactly when skipFirst is false.
C8_BuildCallsAsClaimed ==
    BuildDone =>
        /\ DownCallsInOrder
        /\ \A k \in DOMAIN DownCalls :
              DownCalls[k].src # LayerAt(pyr, 0) /\ DownCalls[k].dst # LayerAt(pyr, 0)
        /\ LevelZeroCopy

\* C8 amended: as claimed, except that levels[0] is never a destination of
\* pyrdown, and is a source only of the first call and only when the caller
\* passes levels[0] itself as input.
C8_BuildCallsInOrder ==
    BuildDone =>
        /\ DownCallsInOrder
        /\ \A k \in DOMAIN DownCalls :
              /\ DownCalls[k].dst # LayerAt(pyr, 0)
              /\ DownCalls[k].src = LayerAt(pyr, 0)
                    => (k = 1 /\ build.input = LayerAt(pyr, 0))
        /\ LevelZeroCopy

\* C8 witness: a build of a pyramid of at least three levels has returned, the
\* caller having passed level 0 as input and skipFirst false.
C8_Witness ==
    /\ BuildDone
    /\ pyr.levels >= 3
    /\ build.input = LayerAt(pyr, 0)
    /\ ~build.skipFirst
    /\ Len(DownCalls) = pyr.levels - 1

====
